---- MODULE Spec2Model ----
(***************************************************************************)
(* The x-add-version command of vcpkg-tool (src/unnamed/part_000): the     *)
(* per-port versions file (history), the registry-wide baseline file, the  *)
(* two reconcilers update_version_db_file and update_baseline_version, and *)
(* the loop of perform_and_exit that drives them over one or all ports.    *)
(***************************************************************************)
EXTENDS Integers, Sequences, FiniteSets, TLC

(***************************************************************************)
(* Bounds of the model.                                                    *)
(***************************************************************************)
\* port directories in the registry
NumPorts == 2
\* git trees the first port takes / every other port takes
NumTrees == 3
NumTreesOther == 1
\* entries a versions file grows to: a call that would write more is not taken
MaxHistory == 2
\* version texts of AllTexts the recipes use
NumTexts == 2
\* highest port-version of a recipe
MaxPortVersion == 1

(***************************************************************************)
(* Value domains.                                                          *)
(***************************************************************************)
AllPortNames == <<"boost-callable-traits", "boost-ratio", "boost-regex", "boost-system">>

\* the directories under ports/, in listing order
Ports == {AllPortNames[i] : i \in 1..NumPorts}

\* a name that is no directory under ports/
NoSuchPort == "no-such-port"

AllTexts == <<"1.2", "beta", "2021-01-01", "1.2.3", "1.3">>

Texts == {AllTexts[i] : i \in 1..NumTexts}

\* content fingerprints (git tree SHAs) are opaque tokens; the model lets the
\* content of the first port take NumTrees states, of the others NumTreesOther
Trees == 1..NumTrees

TreesOf(port_name) ==
  IF port_name = AllPortNames[1] THEN 1..NumTrees ELSE 1..NumTreesOther

VersionSchemes == {"Relaxed", "Semver", "Date", "String"}

\* the versions the recipes of the model take: every text, and the port-versions
\* of the first text (declared with the Relaxed scheme, see SchemedVersions)
VersionsOver(texts) ==
  {v \in [text : texts, port_version : 0..MaxPortVersion] :
     v.port_version > 0 => v.text = AllTexts[1]}

Versions == VersionsOver(Texts)

UpdateResult == {"Updated", "NotUpdated"}

BASELINE == "baseline"
VERSION_RELAXED == "version"
VERSION_SEMVER == "version-semver"
VERSION_DATE == "version-date"
VERSION_STRING == "version-string"

(***************************************************************************)
(* Collaborators that live outside this file.                              *)
(***************************************************************************)
\* DateVersion::try_parse succeeds on date-shaped text
DateVersion_try_parse(text) == text \in {"2021-01-01"}

\* DotVersion::try_parse_relaxed succeeds on dotted-numeric text, with an
\* optional "-suffix": a date-shaped text parses as relaxed too
DotVersion_try_parse_relaxed(text) == text \in {"1.2", "1.2.3", "1.3", "2021-01-01"}

\* DotVersion::try_parse_semver succeeds on major.minor.patch
DotVersion_try_parse_semver(text) == text \in {"1.2.3"}

\* SourceControlFile::to_schemed_version: the recipe parser has validated the
\* text against the declared scheme; "version-string" accepts any text
SchemedVersionsOver(texts) ==
  {sv \in [scheme : VersionSchemes, version : VersionsOver(texts)] :
     /\ sv.scheme = "Date" => DateVersion_try_parse(sv.version.text)
     /\ sv.scheme = "Relaxed" =>
          /\ DotVersion_try_parse_relaxed(sv.version.text)
          /\ ~DateVersion_try_parse(sv.version.text)
     /\ sv.scheme = "Semver" => DotVersion_try_parse_semver(sv.version.text)
     /\ sv.version.port_version > 0 => sv.scheme = "Relaxed"}

SchemedVersions == SchemedVersionsOver(Texts)

\* the model varies the recipe of the first port; the other ports keep one
SchemedVersionsOf(port_name) ==
  IF port_name = AllPortNames[1]
    THEN SchemedVersions
    ELSE {[scheme |-> "Relaxed", version |-> [text |-> AllTexts[1], port_version |-> 0]]}

(***************************************************************************)
(* Files.  A file is missing, unparsable, or holds a JSON value.           *)
(***************************************************************************)
Missing == [state |-> "missing", json |-> <<>>]
Malformed == [state |-> "malformed", json |-> <<>>]
JsonFile(value) == [state |-> "json", json |-> value]

baseline_path == "versions/baseline.json"

\* char prefix[] = {port_name[0], '-', '\0'}: the ports of the model start with b
prefix(port_name) == "b-"

\* paths.builtin_registry_versions / prefix / (port_name + ".json")
port_versions_path(port_name) ==
  "versions/" \o prefix(port_name) \o "/" \o port_name \o ".json"

\* mutant: the new content is written to the target itself
new_path_in_place(output_path) == output_path

new_path(output_path) == output_path \o ".tmp"

Paths ==
  {baseline_path, new_path(baseline_path)}
    \cup {port_versions_path(p) : p \in Ports}
    \cup {new_path(port_versions_path(p)) : p \in Ports}

\* Filesystem::exists
fs_exists(files, path) == files[path].state # "missing"

\* Filesystem::write_contents, completed
fs_write_contents(files, path, contents) == [files EXCEPT ![path] = contents]

\* Filesystem::rename replaces the target by the source in one step
fs_rename(files, old_path, to_path) ==
  [files EXCEPT ![to_path] = files[old_path], ![old_path] = Missing]

(***************************************************************************)
(* JSON layout of the two files.                                           *)
(***************************************************************************)
insert_version_to_json_object(obj, version, version_field) ==
  [obj EXCEPT !.field = version_field,
              !.text = version.text,
              !.port_version = version.port_version]

insert_schemed_version_to_json_object(obj, version) ==
  IF version.scheme = "Relaxed"
    THEN insert_version_to_json_object(obj, version.version, VERSION_RELAXED)
  ELSE IF version.scheme = "Semver"
    THEN insert_version_to_json_object(obj, version.version, VERSION_SEMVER)
  ELSE IF version.scheme = "Date"
    THEN insert_version_to_json_object(obj, version.version, VERSION_DATE)
  ELSE insert_version_to_json_object(obj, version.version, VERSION_STRING)

\* a JSON object before its members are inserted
EmptyObject == [git_tree |-> 0, field |-> "", text |-> "", port_version |-> 0]

serialize_baseline(baseline) ==
  [name \in DOMAIN baseline |->
     insert_version_to_json_object(EmptyObject, baseline[name], BASELINE)]

serialize_versions(versions) ==
  [i \in 1..Len(versions) |->
     insert_schemed_version_to_json_object(
       [EmptyObject EXCEPT !.git_tree = versions[i].second], versions[i].first)]

\* the scheme a version field name of the versions file stands for
scheme_of_field(field) ==
  IF field = VERSION_RELAXED THEN "Relaxed"
  ELSE IF field = VERSION_SEMVER THEN "Semver"
  ELSE IF field = VERSION_DATE THEN "Date"
  ELSE "String"

\* get_builtin_versions: the entries of a port's versions file, or an error
get_builtin_versions(files, port_name) ==
  LET file == files[port_versions_path(port_name)] IN
  IF file.state # "json"
    THEN [has_value |-> FALSE, value |-> <<>>]
    ELSE [has_value |-> TRUE,
          value |-> [i \in 1..Len(file.json) |->
                       [first |-> [scheme |-> scheme_of_field(file.json[i].field),
                                   version |-> [text |-> file.json[i].text,
                                                port_version |-> file.json[i].port_version]],
                        second |-> file.json[i].git_tree]]]

\* the entries of a port's versions file; none when there is no file
history(fs, port_name) ==
  IF fs_exists(fs, port_versions_path(port_name))
    THEN get_builtin_versions(fs, port_name).value
    ELSE <<>>

\* get_builtin_baseline: the map of the baseline file, or an error
get_builtin_baseline(files) ==
  LET file == files[baseline_path] IN
  IF file.state # "json"
    THEN [has_value |-> FALSE, value |-> <<>>]
    ELSE [has_value |-> TRUE,
          value |-> [name \in DOMAIN file.json |->
                       [text |-> file.json[name].text,
                        port_version |-> file.json[name].port_version]]]

write_baseline_file(files, baseline_map, output_path) ==
  fs_rename(fs_write_contents(files, new_path(output_path),
                              JsonFile(serialize_baseline(baseline_map))),
            new_path(output_path), output_path)

\* mutant: nothing is written
write_versions_file_skipped(files, versions, output_path) == files

write_versions_file(files, versions, output_path) ==
  fs_rename(fs_write_contents(files, new_path(output_path),
                              JsonFile(serialize_versions(versions))),
            new_path(output_path), output_path)

\* mutant: the relaxed shape is tried before the date shape
check_used_version_scheme_relaxed_first(version) ==
  IF version.scheme = "String"
    THEN IF DotVersion_try_parse_relaxed(version.version.text) THEN VERSION_RELAXED
         ELSE IF DateVersion_try_parse(version.version.text) THEN VERSION_DATE
         ELSE ""
    ELSE ""

(***************************************************************************)
(* check_used_version_scheme: the scheme it suggests with a fatal message, *)
(* or "" when it returns.                                                  *)
(***************************************************************************)
check_used_version_scheme(version) ==
  IF version.scheme = "String"
    THEN IF DateVersion_try_parse(version.version.text) THEN VERSION_DATE
         ELSE IF DotVersion_try_parse_relaxed(version.version.text) THEN VERSION_RELAXED
         ELSE ""
    ELSE ""

(***************************************************************************)
(* update_baseline_version.  The result, the map and the files after it.   *)
(***************************************************************************)
\* mutant: the equal-version test is missing, every call writes
update_baseline_version_always(files, port_name, version, baseline_map) ==
  LET updated == [n \in DOMAIN baseline_map \cup {port_name} |->
                    IF n = port_name THEN version ELSE baseline_map[n]]
  IN [result |-> "Updated",
      baseline_map |-> updated,
      files |-> [files EXCEPT ![baseline_path] = JsonFile(serialize_baseline(updated))]]

\* mutant: the baseline is never touched
update_baseline_version_never(files, port_name, version, baseline_map) ==
  [result |-> "NotUpdated", baseline_map |-> baseline_map, files |-> files]

\* mutant: an update keeps the entry of the updated port only
update_baseline_version_alone(files, port_name, version, baseline_map) ==
  IF port_name \in DOMAIN baseline_map /\ baseline_map[port_name] = version
    THEN [result |-> "NotUpdated", baseline_map |-> baseline_map, files |-> files]
    ELSE LET updated == [n \in {port_name} |-> version]
         IN [result |-> "Updated",
             baseline_map |-> updated,
             files |-> write_baseline_file(files, updated, baseline_path)]

update_baseline_version(files, port_name, version, baseline_map) ==
  IF port_name \in DOMAIN baseline_map /\ baseline_map[port_name] = version
    THEN [result |-> "NotUpdated", baseline_map |-> baseline_map, files |-> files]
    ELSE LET updated == [n \in DOMAIN baseline_map \cup {port_name} |->
                           IF n = port_name THEN version ELSE baseline_map[n]]
         IN [result |-> "Updated",
             baseline_map |-> updated,
             files |-> write_baseline_file(files, updated, baseline_path)]

(***************************************************************************)
(* update_version_db_file.  result is Updated, NotUpdated, or exit_fail    *)
(* when the call terminates the process; branch names the branch taken.    *)
(***************************************************************************)
\* mutant: the fingerprint search never finds an entry
found_same_sha_never(versions, git_tree) == Len(versions) + 1

\* mutant: the version search never finds an entry
found_same_version_never(versions, version) == Len(versions) + 1

\* std::find_if: the first index that satisfies the test, Len + 1 for end()
found_same_sha(versions, git_tree) ==
  IF \E i \in 1..Len(versions) : versions[i].second = git_tree
    THEN CHOOSE i \in 1..Len(versions) :
           /\ versions[i].second = git_tree
           /\ \A j \in 1..(i - 1) : versions[j].second # git_tree
    ELSE Len(versions) + 1

\* mutant: the version search looks at the newest entry only
found_same_version_first_only(versions, version) ==
  IF Len(versions) > 0 /\ versions[1].first.version = version
    THEN 1
    ELSE Len(versions) + 1

found_same_version(versions, version) ==
  IF \E i \in 1..Len(versions) : versions[i].first.version = version
    THEN CHOOSE i \in 1..Len(versions) :
           /\ versions[i].first.version = version
           /\ \A j \in 1..(i - 1) : versions[j].first.version # version
    ELSE Len(versions) + 1

VersionDbReturn(result, branch, files) ==
  [result |-> result, branch |-> branch, files |-> files]

\* the tail of the function once the entries to write are decided (lines 375-388)
check_and_write(files, versions, port_version, version_db_file_path, skip_version_format_check, branch) ==
  IF ~skip_version_format_check /\ check_used_version_scheme(port_version) # ""
    THEN VersionDbReturn("exit_fail", "suggest_scheme", files)
    ELSE VersionDbReturn("Updated", branch,
                         write_versions_file(files, versions, version_db_file_path))

\* mutant: the override replaces the fingerprint and keeps the old scheme
overwrite_entry_tree_only(versions, it, port_version, git_tree) ==
  [versions EXCEPT ![it] = [first |-> [scheme |-> versions[it].first.scheme,
                                       version |-> port_version.version],
                            second |-> git_tree]]

\* mutant: a new entry goes to the back
insert_entry_at_end(versions, port_version, git_tree) ==
  versions \o <<[first |-> port_version, second |-> git_tree]>>

\* mutant: the override gives the entry the fingerprint of the first entry
overwrite_entry_duplicating(versions, it, port_version, git_tree) ==
  [versions EXCEPT ![it] = [first |-> port_version, second |-> versions[1].second]]

\* lines 367-368: it->first = port_version; it->second = git_tree
overwrite_entry(versions, it, port_version, git_tree) ==
  [versions EXCEPT ![it] = [first |-> port_version, second |-> git_tree]]

\* line 372: versions->insert(versions->begin(), {port_version, git_tree})
insert_entry(versions, port_version, git_tree) ==
  <<[first |-> port_version, second |-> git_tree]>> \o versions

\* mutant: the version search and the override come before the fingerprint search
update_existing_versions_version_first(files, versions, port_version, git_tree, version_db_file_path, overwrite_version, keep_going, skip_version_format_check) ==
  LET sha == found_same_sha(versions, git_tree)
      it == found_same_version(versions, port_version.version)
      versions_end == Len(versions) + 1
  IN
  IF it # versions_end /\ overwrite_version
    THEN check_and_write(files,
                         overwrite_entry(versions, it, port_version, git_tree),
                         port_version, version_db_file_path,
                         skip_version_format_check, "overwritten")
  ELSE IF sha # versions_end
    THEN IF versions[sha].first.version = port_version.version
           THEN VersionDbReturn("NotUpdated", "already_in_file", files)
           ELSE IF keep_going
                  THEN VersionDbReturn("NotUpdated", "sha_unchanged", files)
                  ELSE VersionDbReturn("exit_fail", "sha_unchanged", files)
  ELSE IF it # versions_end
    THEN IF keep_going
           THEN VersionDbReturn("NotUpdated", "sha_changed", files)
           ELSE VersionDbReturn("exit_fail", "sha_changed", files)
  ELSE check_and_write(files, insert_entry(versions, port_version, git_tree), port_version,
                       version_db_file_path, skip_version_format_check, "inserted")

\* mutant: an entry only counts as found when its scheme is the call's too
update_existing_versions_scheme_compared(files, versions, port_version, git_tree, version_db_file_path, overwrite_version, keep_going, skip_version_format_check) ==
  LET sha == found_same_sha(versions, git_tree)
      it == found_same_version(versions, port_version.version)
      versions_end == Len(versions) + 1
  IN
  IF sha # versions_end /\ versions[sha].first = port_version
    THEN VersionDbReturn("NotUpdated", "already_in_file", files)
  ELSE IF sha # versions_end /\ versions[sha].first.version # port_version.version
    THEN IF keep_going
           THEN VersionDbReturn("NotUpdated", "sha_unchanged", files)
           ELSE VersionDbReturn("exit_fail", "sha_unchanged", files)
  ELSE IF it # versions_end
    THEN IF ~overwrite_version
           THEN IF keep_going
                  THEN VersionDbReturn("NotUpdated", "sha_changed", files)
                  ELSE VersionDbReturn("exit_fail", "sha_changed", files)
           ELSE check_and_write(files,
                                overwrite_entry(versions, it, port_version, git_tree),
                                port_version, version_db_file_path,
                                skip_version_format_check, "overwritten")
  ELSE check_and_write(files, insert_entry(versions, port_version, git_tree), port_version,
                       version_db_file_path, skip_version_format_check, "inserted")

update_existing_versions(files, versions, port_version, git_tree, version_db_file_path, overwrite_version, keep_going, skip_version_format_check) ==
  LET sha == found_same_sha(versions, git_tree)
      it == found_same_version(versions, port_version.version)
      versions_end == Len(versions) + 1
  IN
  IF sha # versions_end
    THEN IF versions[sha].first.version = port_version.version
           THEN VersionDbReturn("NotUpdated", "already_in_file", files)
           ELSE IF keep_going
                  THEN VersionDbReturn("NotUpdated", "sha_unchanged", files)
                  ELSE VersionDbReturn("exit_fail", "sha_unchanged", files)
  ELSE IF it # versions_end
    THEN IF ~overwrite_version
           THEN IF keep_going
                  THEN VersionDbReturn("NotUpdated", "sha_changed", files)
                  ELSE VersionDbReturn("exit_fail", "sha_changed", files)
           ELSE check_and_write(files,
                                overwrite_entry(versions, it, port_version, git_tree),
                                port_version, version_db_file_path,
                                skip_version_format_check, "overwritten")
  ELSE check_and_write(files, insert_entry(versions, port_version, git_tree), port_version,
                       version_db_file_path, skip_version_format_check, "inserted")

\* mutant: with keep_going a missing versions file is reported and not created
update_version_db_file_missing_kept(files, port_name, port_version, git_tree, version_db_file_path, overwrite_version, keep_going, skip_version_format_check) ==
  IF ~fs_exists(files, version_db_file_path)
    THEN IF keep_going
           THEN VersionDbReturn("NotUpdated", "new_file", files)
           ELSE check_and_write(files, <<[first |-> port_version, second |-> git_tree]>>,
                                port_version, version_db_file_path,
                                skip_version_format_check, "new_file")
    ELSE LET maybe_versions == get_builtin_versions(files, port_name) IN
         IF maybe_versions.has_value
           THEN update_existing_versions(files, maybe_versions.value, port_version,
                                         git_tree, version_db_file_path, overwrite_version,
                                         keep_going, skip_version_format_check)
           ELSE VersionDbReturn("exit_fail", "unable_to_parse", files)

update_version_db_file(files, port_name, port_version, git_tree, version_db_file_path, overwrite_version, keep_going, skip_version_format_check) ==
  IF ~fs_exists(files, version_db_file_path)
    THEN check_and_write(files, <<[first |-> port_version, second |-> git_tree]>>,
                         port_version, version_db_file_path, skip_version_format_check,
                         "new_file")
    ELSE LET maybe_versions == get_builtin_versions(files, port_name) IN
         IF maybe_versions.has_value
           THEN update_existing_versions(files, maybe_versions.value, port_version,
                                         git_tree, version_db_file_path, overwrite_version,
                                         keep_going, skip_version_format_check)
           ELSE VersionDbReturn("exit_fail", "unable_to_parse", files)

(***************************************************************************)
(* State.                                                                  *)
(***************************************************************************)
VARIABLES
  files,          \* the registry's files, by path
  pc,             \* "idle": no process; "start": at the entry of perform_and_exit;
                  \* "loop": at the head of the loop body
  run,            \* the locals perform_and_exit computes from the command line
  port_names,     \* the ports the loop goes over
  index,          \* the position of the loop in port_names
  baseline_map,   \* the in-memory baseline map of the running process
  cur,            \* the last loop iteration of this process that called
                  \* update_version_db_file: its inputs and what came of it
  failures,       \* the ports this process reported an error or a refusal for
  exit_status,    \* how the last process ended
  wr              \* a call of write_versions_file or write_baseline_file taken
                  \* one file-system operation at a time (SpecWrite)

vars ==
  <<files, pc, run, port_names, index, baseline_map, cur, failures, exit_status, wr>>

\* the command line: an optional port name and the switches
Arguments ==
  [command_arguments : {<<>>} \cup {<<p>> : p \in Ports \cup {NoSuchPort}},
   all : BOOLEAN, overwrite_version : BOOLEAN, skip_formatting_check : BOOLEAN,
   skip_version_format_check : BOOLEAN, verbose : BOOLEAN]

\* lines 419-424
parse_arguments(a) ==
  [command_arguments |-> a.command_arguments,
   add_all |-> a.all,
   overwrite_version |-> a.overwrite_version,
   skip_formatting_check |-> a.skip_formatting_check,
   skip_version_format_check |-> a.skip_version_format_check]

\* line 424
verbose(a) == ~a.all \/ a.verbose

NoRun ==
  [command_arguments |-> <<>>, add_all |-> FALSE, overwrite_version |-> FALSE,
   skip_formatting_check |-> FALSE, skip_version_format_check |-> FALSE]

NoVersion == [scheme |-> "String", version |-> [text |-> "", port_version |-> 0]]

NoWrite ==
  [function |-> "", output_path |-> "", contents |-> Missing, before |-> Missing,
   line |-> ""]

NoIteration ==
  [port_name |-> "", schemed_version |-> NoVersion, git_tree |-> 0,
   updated_versions_file |-> "", branch |-> "", updated_baseline_file |-> ""]

\* Checks::check_exit(line, expression) and Checks::msg_check_exit terminate
\* the process with a failure when the expression is false
check_exit_exits(expression) == ~expression

\* fs.get_directories_non_recursive(ports): the port directories, in order
ports_listing == [i \in 1..NumPorts |-> AllPortNames[i]]

(***************************************************************************)
(* Init: a registry without versions files, or with unparsable ones, and a *)
(* baseline file that is empty, missing or unparsable.                     *)
(***************************************************************************)
Init ==
  /\ files \in [Paths -> {Missing, Malformed, JsonFile(<<>>)}]
  /\ files[new_path(baseline_path)] = Missing
  /\ \A p \in Ports :
       /\ files[new_path(port_versions_path(p))] = Missing
       /\ files[port_versions_path(p)] \in {Missing, Malformed}
  /\ pc = "idle"
  /\ run = NoRun
  /\ port_names = <<>>
  /\ index = 0
  /\ baseline_map = <<>>
  /\ cur = NoIteration
  /\ failures = {}
  /\ exit_status = "none"
  /\ wr = NoWrite

(***************************************************************************)
(* Process exit: the memory of the process is gone.                        *)
(***************************************************************************)
Exit(status) ==
  /\ pc' = "idle"
  /\ exit_status' = status
  /\ run' = NoRun
  /\ port_names' = <<>>
  /\ index' = 0
  /\ baseline_map' = <<>>

\* mutant: `continue` stays at the same port
NextPort_same_port(map) ==
  IF index < Len(port_names)
    THEN /\ pc' = "loop"
         /\ index' = index
         /\ baseline_map' = map
         /\ UNCHANGED <<run, port_names, exit_status>>
    ELSE /\ Exit("success")

\* mutant: each port starts from an empty baseline map
NextPort_map_dropped(map) ==
  IF index < Len(port_names)
    THEN /\ pc' = "loop"
         /\ index' = index + 1
         /\ baseline_map' = <<>>
         /\ UNCHANGED <<run, port_names, exit_status>>
    ELSE /\ Exit("success")

\* `continue`, or the end of the loop body: the next port, or exit_success
NextPort(map) ==
  IF index < Len(port_names)
    THEN /\ pc' = "loop"
         /\ index' = index + 1
         /\ baseline_map' = map
         /\ UNCHANGED <<run, port_names, exit_status>>
    ELSE /\ Exit("success")

(***************************************************************************)
(* perform_and_exit, lines 418-468: up to the loop.                        *)
(***************************************************************************)
\* the command is launched: a new process, nothing reported yet
Launch ==
  /\ pc = "idle"
  /\ pc' = "start"
  /\ exit_status' = "running"
  /\ failures' = {}
  /\ cur' = NoIteration
  /\ UNCHANGED <<files, run, port_names, index, baseline_map, wr>>

\* mutant: a baseline file that is missing or unparsable counts as an empty map
StartRun_without_baseline(locals) ==
  /\ pc = "start"
  /\ UNCHANGED <<files, wr, failures, cur>>
  /\ IF locals.command_arguments = <<>> /\ check_exit_exits(locals.add_all)
       THEN /\ Exit("failure")
       ELSE /\ pc' = "loop"
            /\ run' = locals
            /\ port_names' = IF locals.command_arguments # <<>>
                               THEN <<locals.command_arguments[1]>>
                               ELSE ports_listing
            /\ index' = 1
            /\ baseline_map' = get_builtin_baseline(files).value
            /\ UNCHANGED exit_status

\* locals: the parsed command line; the local git tree map can be read
StartRun(locals) ==
  /\ pc = "start"
  /\ UNCHANGED <<files, wr, failures, cur>>
  /\ LET names == IF locals.command_arguments # <<>>
                    THEN <<locals.command_arguments[1]>>
                    ELSE ports_listing
         maybe_baseline_map == get_builtin_baseline(files)
     IN
     IF \/ ~fs_exists(files, baseline_path)
        \/ (locals.command_arguments = <<>> /\ check_exit_exits(locals.add_all))
        \/ ~maybe_baseline_map.has_value
       THEN /\ Exit("failure")
       ELSE /\ pc' = "loop"
            /\ run' = locals
            /\ port_names' = names
            /\ index' = 1
            /\ baseline_map' = maybe_baseline_map.value
            /\ UNCHANGED exit_status

\* git_get_local_port_treeish_map fails: value_or_exit (line 468)
GitTreeMapFailed ==
  /\ pc = "start"
  /\ fs_exists(files, baseline_path)
  /\ get_builtin_baseline(files).has_value
  /\ UNCHANGED <<files, wr, failures, cur>>
  /\ Exit("failure")

(***************************************************************************)
(* The loop body, lines 470-552: one port up to update_version_db_file.    *)
(***************************************************************************)
\* an error before the reconcilers: check_exit(!add_all), then `continue`
PortError(locals, port_name, reason) ==
  /\ failures' = failures \cup {port_name}
  /\ UNCHANGED <<files, cur, wr>>
  /\ IF check_exit_exits(~locals.add_all)
       THEN Exit("failure")
       ELSE NextPort(baseline_map)

PortDoesNotExist(locals) ==
  /\ pc = "loop"
  /\ port_names[index] \notin Ports
  /\ PortError(locals, port_names[index], "port_does_not_exist")

LoadPortFailed(locals) ==
  /\ pc = "loop"
  /\ port_names[index] \in Ports
  /\ PortError(locals, port_names[index], "load_port_failed")

PortHasImproperFormat(locals) ==
  /\ pc = "loop"
  /\ port_names[index] \in Ports
  /\ ~locals.skip_formatting_check
  /\ PortError(locals, port_names[index], "improper_format")

NoGitSha(locals) ==
  /\ pc = "loop"
  /\ port_names[index] \in Ports
  /\ PortError(locals, port_names[index], "no_git_sha")

\* lines 524-559: the port's version and tree are known; both reconcilers.
\* killed: the process dies after update_version_db_file has returned and
\* before update_baseline_version is called; cur.updated_baseline_file = ""
\* records that update_baseline_version was not reached
ReconcilePort(locals, schemed_version, git_tree) ==
  /\ pc = "loop"
  /\ port_names[index] \in Ports
  /\ git_tree \in TreesOf(port_names[index])
  /\ schemed_version \in SchemedVersionsOf(port_names[index])
  /\ LET port_name == port_names[index]
         r == update_version_db_file(files, port_name, schemed_version, git_tree,
                                     port_versions_path(port_name),
                                     locals.overwrite_version, locals.add_all,
                                     locals.skip_version_format_check)
         b == update_baseline_version(r.files, port_name, schemed_version.version,
                                      baseline_map)
         refused == r.branch \in {"sha_unchanged", "sha_changed", "suggest_scheme",
                                  "unable_to_parse"}
         returned == r.result # "exit_fail"
     IN
     /\ Len(history(r.files, port_name)) <= MaxHistory
     /\ failures' = IF refused THEN failures \cup {port_name} ELSE failures
     /\ UNCHANGED wr
     /\ \E killed \in {k \in BOOLEAN : k => returned} :
          /\ cur' = [port_name |-> port_name,
                     schemed_version |-> schemed_version,
                     git_tree |-> git_tree,
                     updated_versions_file |-> r.result,
                     branch |-> r.branch,
                     updated_baseline_file |->
                       IF returned /\ ~killed THEN b.result ELSE ""]
          /\ files' = IF returned /\ ~killed THEN b.files ELSE r.files
          /\ IF ~returned THEN Exit("failure")
             ELSE IF killed THEN Exit("interrupted")
             ELSE NextPort(b.baseline_map)

\* the process is killed between two ports
Interrupt ==
  /\ pc = "loop"
  /\ Exit("interrupted")
  /\ UNCHANGED <<files, cur, failures, wr>>

\* one step of the loop of a process whose parsed command line is locals
LoopStep(locals) ==
  \/ PortDoesNotExist(locals)
  \/ LoadPortFailed(locals)
  \/ PortHasImproperFormat(locals)
  \/ NoGitSha(locals)
  \/ \E sv \in SchemedVersions, t \in Trees : ReconcilePort(locals, sv, t)

Next ==
  \/ Launch
  \/ \E locals \in {parse_arguments(a) : a \in Arguments} : StartRun(locals)
  \/ GitTreeMapFailed
  \/ PortDoesNotExist(run)
  \/ LoadPortFailed(run)
  \/ PortHasImproperFormat(run)
  \/ NoGitSha(run)
  \/ \E sv \in SchemedVersions, t \in Trees : ReconcilePort(run, sv, t)
  \/ Interrupt

Spec == Init /\ [][Next]_vars

(***************************************************************************)
(* write_versions_file and write_baseline_file (lines 207-228), one file-  *)
(* system operation at a time, where any operation may fail.               *)
(***************************************************************************)
HistoryEntries ==
  {[first |-> sv, second |-> t] : sv \in SchemedVersions, t \in Trees}

\* what a versions file can hold: nothing, garbage, or a list of entries
VersionsContents ==
  {Missing, Malformed}
    \cup {JsonFile(serialize_versions(<<e>>)) : e \in HistoryEntries}

BaselineContents ==
  {Missing, Malformed, JsonFile(<<>>)}
    \cup {JsonFile(serialize_baseline([n \in {p} |-> v])) : p \in Ports, v \in Versions}

WriteStart(function, output_path, before, contents) ==
  /\ files = [path \in Paths |-> IF path = output_path THEN before ELSE Missing]
  /\ wr = [function |-> function, output_path |-> output_path, contents |-> contents,
           before |-> before, line |-> "create_directories"]

InitWrite ==
  /\ pc = "idle"
  /\ run = NoRun
  /\ port_names = <<>>
  /\ index = 0
  /\ baseline_map = <<>>
  /\ cur = NoIteration
  /\ failures = {}
  /\ exit_status = "none"
  /\ \/ \E before \in VersionsContents, contents \in VersionsContents \ {Missing, Malformed} :
          WriteStart("write_versions_file", port_versions_path(AllPortNames[1]),
                     before, contents)
     \/ \E before \in BaselineContents, contents \in BaselineContents \ {Missing, Malformed} :
          WriteStart("write_baseline_file", baseline_path, before, contents)

WriteFrame ==
  UNCHANGED <<pc, run, port_names, index, baseline_map, cur, failures, exit_status>>

\* fs.create_directories(output_path.parent_path())
CreateDirectories ==
  /\ wr.line = "create_directories"
  /\ wr' = [wr EXCEPT !.line = "write_contents"]
  /\ UNCHANGED files
  /\ WriteFrame

\* fs.write_contents(new_path, ...) has opened the file and written a part
WriteContentsBegin ==
  /\ wr.line = "write_contents"
  /\ files' = fs_write_contents(files, new_path(wr.output_path), Malformed)
  /\ wr' = [wr EXCEPT !.line = "writing"]
  /\ WriteFrame

\* fs.write_contents(new_path, ...) returns
WriteContentsEnd ==
  /\ wr.line = "writing"
  /\ files' = fs_write_contents(files, new_path(wr.output_path), wr.contents)
  /\ wr' = [wr EXCEPT !.line = "rename"]
  /\ WriteFrame

\* fs.rename(new_path, output_path)
Rename ==
  /\ wr.line = "rename"
  /\ files' = fs_rename(files, new_path(wr.output_path), wr.output_path)
  /\ wr' = [wr EXCEPT !.line = "returned"]
  /\ WriteFrame

\* the operation about to run throws, or the process dies there
WriteFails ==
  /\ wr.line \in {"create_directories", "write_contents", "writing", "rename"}
  /\ wr' = [wr EXCEPT !.line = "failed at " \o wr.line]
  /\ UNCHANGED files
  /\ WriteFrame

NextWrite ==
  \/ CreateDirectories
  \/ WriteContentsBegin
  \/ WriteContentsEnd
  \/ Rename
  \/ WriteFails

SpecWrite == InitWrite /\ [][NextWrite]_vars

(***************************************************************************)
(* Vocabulary of the properties.                                           *)
(***************************************************************************)
\* the versions file of the port is absent or can be parsed
readable(fs, port_name) == fs[port_versions_path(port_name)].state # "malformed"

has_tree(versions, git_tree) == \E i \in 1..Len(versions) : versions[i].second = git_tree

has_version(versions, version) ==
  \E i \in 1..Len(versions) : versions[i].first.version = version

\* a port name was given without --all / no port name was given, with --all
SinglePortMode == run.command_arguments # <<>> /\ ~run.add_all
ProcessAllMode == run.command_arguments = <<>> /\ run.add_all

\* this step is a call of update_version_db_file; cur' holds its inputs
VersionsStep == pc = "loop" /\ cur' # cur

\* this step is an error of port_names[index] before the reconcilers
ErrorStep == pc = "loop" /\ failures' # failures /\ cur' = cur

\* check_used_version_scheme lets the call with this version go on
SchemeCheckPasses(locals, schemed_version) ==
  locals.skip_version_format_check \/ check_used_version_scheme(schemed_version) = ""

(***************************************************************************)
(* C1. Idempotence: once a run has recorded (version V, fingerprint F) for *)
(* a port and exited with success, a repeated run with the same V and F,   *)
(* under any flags, gets NotUpdated from update_version_db_file and from   *)
(* update_baseline_version and leaves the versions file and the baseline   *)
(* file as they are.                                                       *)
(***************************************************************************)
RecordedAndSucceeded ==
  /\ pc = "idle"
  /\ exit_status = "success"
  /\ cur.updated_baseline_file # ""
  /\ \E i \in 1..Len(history(files, cur.port_name)) :
       /\ history(files, cur.port_name)[i].first.version = cur.schemed_version.version
       /\ history(files, cur.port_name)[i].second = cur.git_tree

C1_Idempotence ==
  RecordedAndSucceeded =>
    \A overwrite_version, keep_going, skip_version_format_check \in BOOLEAN :
      LET maybe_baseline_map == get_builtin_baseline(files)
          r == update_version_db_file(files, cur.port_name, cur.schemed_version,
                                      cur.git_tree, port_versions_path(cur.port_name),
                                      overwrite_version, keep_going,
                                      skip_version_format_check)
          b == update_baseline_version(r.files, cur.port_name,
                                       cur.schemed_version.version,
                                       maybe_baseline_map.value)
      IN /\ maybe_baseline_map.has_value
         /\ r.result = "NotUpdated"
         /\ r.files = files
         /\ b.result = "NotUpdated"
         /\ b.files = files

\* a run wrote a second entry for the first port and succeeded
C1_Witness ==
  /\ RecordedAndSucceeded
  /\ cur.updated_versions_file = "Updated"
  /\ cur.updated_baseline_file = "Updated"
  /\ Len(history(files, cur.port_name)) = 2

(***************************************************************************)
(* C2. Version conflict without override: when the history has no entry    *)
(* with the new fingerprint but an entry with the new version, and         *)
(* --overwrite-version is not given, update_version_db_file does not       *)
(* update: the versions file is unchanged, and in single-port mode (a port *)
(* name and no --all) the process exits with a failure.                    *)
(***************************************************************************)
C2_ConflictRefused ==
  [][(/\ VersionsStep
      /\ readable(files, cur'.port_name)
      /\ ~has_tree(history(files, cur'.port_name), cur'.git_tree)
      /\ has_version(history(files, cur'.port_name), cur'.schemed_version.version)
      /\ ~run.overwrite_version)
       => /\ files'[port_versions_path(cur'.port_name)] =
               files[port_versions_path(cur'.port_name)]
          /\ cur'.updated_versions_file # "Updated"
          /\ has_version(history(files', cur'.port_name), cur'.schemed_version.version)
          /\ ~has_tree(history(files', cur'.port_name), cur'.git_tree)
          /\ SinglePortMode => (pc' = "idle" /\ exit_status' = "failure")]_vars

\* a single-port run has ended in failure on a version bound to another tree
C2_Witness ==
  /\ pc = "idle"
  /\ exit_status = "failure"
  /\ cur.updated_versions_file = "exit_fail"
  /\ has_version(history(files, cur.port_name), cur.schemed_version.version)
  /\ ~has_tree(history(files, cur.port_name), cur.git_tree)
  /\ cur.branch = "sha_changed"

(***************************************************************************)
(* C3. Override in place.  As stated: in the version-conflict case with    *)
(* --overwrite-version, update_version_db_file returns Updated and the     *)
(* written history has the same length, the conflicting entry at the same  *)
(* index with the new scheme and fingerprint, and every other entry as it  *)
(* was.                                                                    *)
(***************************************************************************)
OverrideCase ==
  /\ VersionsStep
  /\ readable(files, cur'.port_name)
  /\ ~has_tree(history(files, cur'.port_name), cur'.git_tree)
  /\ has_version(history(files, cur'.port_name), cur'.schemed_version.version)
  /\ run.overwrite_version

OverriddenInPlace ==
  LET old == history(files, cur'.port_name)
      new == history(files', cur'.port_name)
  IN /\ cur'.updated_versions_file = "Updated"
     /\ Len(new) = Len(old)
     /\ \A i \in 1..Len(old) :
          IF old[i].first.version = cur'.schemed_version.version
            THEN new[i] = [first |-> cur'.schemed_version, second |-> cur'.git_tree]
            ELSE new[i] = old[i]

C3_Original == [][OverrideCase => OverriddenInPlace]_vars

(***************************************************************************)
(* C3, amended: the same, provided the version-scheme check does not end   *)
(* the run (it is skipped, or the scheme is not String, or the text is     *)
(* neither date-like nor dotted-numeric).                                  *)
(***************************************************************************)
C3_OverrideInPlace ==
  [][(OverrideCase /\ SchemeCheckPasses(run, cur'.schemed_version))
       => OverriddenInPlace]_vars

\* an override has rewritten the second of two entries, with a String scheme
C3_Witness ==
  /\ cur.branch = "overwritten"
  /\ cur.updated_versions_file = "Updated"
  /\ Len(history(files, cur.port_name)) = 2
  /\ history(files, cur.port_name)[2] =
       [first |-> cur.schemed_version, second |-> cur.git_tree]
  /\ history(files, cur.port_name)[1].first.version # cur.schemed_version.version
  /\ cur.schemed_version.scheme = "String"

(***************************************************************************)
(* C4. Unchanged-content detection: when the history already has an entry  *)
(* with the new fingerprint under a different version,                     *)
(* update_version_db_file does not update and the versions file is         *)
(* unchanged; it returns NotUpdated when keep_going (--all) is set and     *)
(* ends the process with a failure otherwise.                              *)
(***************************************************************************)
SameTreeOtherVersion(versions, schemed_version, git_tree) ==
  \E i \in 1..Len(versions) :
    /\ versions[i].second = git_tree
    /\ versions[i].first.version # schemed_version.version

C4_UnchangedContentRefused ==
  [][(/\ VersionsStep
      /\ readable(files, cur'.port_name)
      /\ SameTreeOtherVersion(history(files, cur'.port_name), cur'.schemed_version,
                              cur'.git_tree))
       => /\ files'[port_versions_path(cur'.port_name)] =
               files[port_versions_path(cur'.port_name)]
          /\ cur'.branch = "sha_unchanged"
          /\ IF run.add_all
               THEN cur'.updated_versions_file = "NotUpdated"
               ELSE /\ cur'.updated_versions_file = "exit_fail"
                    /\ pc' = "idle"
                    /\ exit_status' = "failure"]_vars

\* a keep-going call was refused for a tree recorded under another version,
\* although --overwrite-version would have found the version too
C4_Witness ==
  /\ cur.branch = "sha_unchanged"
  /\ cur.updated_versions_file = "NotUpdated"
  /\ SameTreeOtherVersion(history(files, cur.port_name), cur.schemed_version,
                          cur.git_tree)
  /\ has_version(history(files, cur.port_name), cur.schemed_version.version)

(***************************************************************************)
(* C5. Exit status: the run exits with status zero only if no targeted     *)
(* port had a failure (port directory missing, recipe load failed, format  *)
(* mismatch, fingerprint unavailable, unchanged-content refusal, version   *)
(* conflict without override).                                             *)
(***************************************************************************)
C5_ExitStatus ==
  (pc = "idle" /\ exit_status = "success") => failures = {}

(***************************************************************************)
(* C6. Process-all mode keeps going: when a port fails before the          *)
(* reconcilers, nothing is written for it, what was written for earlier    *)
(* ports stays, and the next port of the listing is processed.             *)
(***************************************************************************)
C6_KeepsGoing ==
  [][(ProcessAllMode /\ ErrorStep)
       => /\ files' = files
          /\ exit_status' # "failure"
          /\ index < Len(port_names) => (pc' = "loop" /\ index' = index + 1)]_vars

(***************************************************************************)
(* C7. Single-port mode is fail-fast: with a port name and without --all,  *)
(* any failure of the port ends the run at once with a failure status and  *)
(* nothing is written after it.                                            *)
(***************************************************************************)
C7_FailFast ==
  [][(pc = "loop" /\ SinglePortMode /\ failures' # failures)
       => /\ pc' = "idle"
          /\ exit_status' = "failure"
          /\ files' = files]_vars

(***************************************************************************)
(* C8. --all is ignored when a port name is given: every step of such a    *)
(* run is a step the run without --all takes from the same state (same     *)
(* files written, same exit status).                                       *)
(***************************************************************************)
C8_AllIgnored ==
  [][(pc = "loop" /\ run.command_arguments # <<>>)
       => (LoopStep([run EXCEPT !.add_all = FALSE]) \/ Interrupt)]_vars

(***************************************************************************)
(* C9. Atomic write: during write_versions_file and write_baseline_file    *)
(* the target path holds the complete previous content or the complete new *)
(* content; it holds the previous content until the rename, so a failure   *)
(* before the rename leaves it as it was, and the new content after.       *)
(***************************************************************************)
C9_AtomicWrite ==
  wr.function # "" =>
    /\ files[wr.output_path] \in {wr.before, wr.contents}
    /\ wr.line # "returned" => files[wr.output_path] = wr.before
    /\ wr.line = "returned" => files[wr.output_path] = wr.contents

\* the rename failed: the new content is complete in the temporary file and
\* the target still holds a different, parsable previous content
C9_Witness ==
  /\ wr.line = "failed at rename"
  /\ files[new_path(wr.output_path)] = wr.contents
  /\ files[wr.output_path] = wr.before
  /\ wr.before.state = "json"
  /\ wr.before # wr.contents

(***************************************************************************)
(* C10. New-entry ordering.  As stated: when the history has no entry with *)
(* the new fingerprint and none with the new version, the new entry is at  *)
(* index 0 of the written history and the old entries follow in their      *)
(* order.                                                                  *)
(***************************************************************************)
NewEntryCase ==
  /\ VersionsStep
  /\ readable(files, cur'.port_name)
  /\ ~has_tree(history(files, cur'.port_name), cur'.git_tree)
  /\ ~has_version(history(files, cur'.port_name), cur'.schemed_version.version)

InsertedFirst ==
  history(files', cur'.port_name) =
    <<[first |-> cur'.schemed_version, second |-> cur'.git_tree]>>
      \o history(files, cur'.port_name)

C10_Original == [][NewEntryCase => InsertedFirst]_vars

(***************************************************************************)
(* C10, amended: the same, provided the version-scheme check does not end  *)
(* the run.  Run after run, the newest version is then first: vN, ..., v1. *)
(***************************************************************************)
C10_NewEntryFirst ==
  [][(NewEntryCase /\ SchemeCheckPasses(run, cur'.schemed_version))
       => InsertedFirst]_vars

\* a second version was recorded on top of the first one
C10_Witness ==
  /\ cur.branch = "inserted"
  /\ cur.updated_versions_file = "Updated"
  /\ Len(history(files, cur.port_name)) = 2
  /\ history(files, cur.port_name)[1] =
       [first |-> cur.schemed_version, second |-> cur.git_tree]
  /\ history(files, cur.port_name)[2].first.version # cur.schemed_version.version

(***************************************************************************)
(* C11. Crash recovery across the two files: when a process is killed      *)
(* after update_version_db_file wrote the versions file of a port and      *)
(* before update_baseline_version ran, calling the two reconcilers again   *)
(* for the port (same version and tree, any flags, the baseline map read   *)
(* back from disk) gives NotUpdated for the versions file, which is not    *)
(* rewritten, Updated for the baseline when its write was still to be      *)
(* made, and the files the uninterrupted process would have left.          *)
(***************************************************************************)
KilledBetweenWrites ==
  /\ VersionsStep
  /\ exit_status' = "interrupted"
  /\ cur'.updated_versions_file = "Updated"

BaselinePending(fs, port_name, version) ==
  LET maybe_baseline_map == get_builtin_baseline(fs) IN
  ~(/\ port_name \in DOMAIN maybe_baseline_map.value
    /\ maybe_baseline_map.value[port_name] = version)

C11_CrashRecovery ==
  [][KilledBetweenWrites =>
       \A overwrite_version, keep_going, skip_version_format_check \in BOOLEAN :
         LET port_name == cur'.port_name
             version == cur'.schemed_version.version
             uninterrupted == update_baseline_version(files', port_name, version,
                                                      baseline_map)
             maybe_baseline_map == get_builtin_baseline(files')
             r == update_version_db_file(files', port_name, cur'.schemed_version,
                                         cur'.git_tree, port_versions_path(port_name),
                                         overwrite_version, keep_going,
                                         skip_version_format_check)
             b == update_baseline_version(r.files, port_name, version,
                                          maybe_baseline_map.value)
         IN /\ maybe_baseline_map.has_value
            /\ r.result = "NotUpdated"
            /\ r.files = files'
            /\ BaselinePending(files', port_name, version) => b.result = "Updated"
            /\ b.files = uninterrupted.files
            /\ b.baseline_map = uninterrupted.baseline_map]_vars

\* a process was killed with a new second entry written and the baseline
\* still naming another version of the port
C11_Witness ==
  /\ pc = "idle"
  /\ exit_status = "interrupted"
  /\ cur.updated_versions_file = "Updated"
  /\ cur.updated_baseline_file = ""
  /\ Len(history(files, cur.port_name)) = 2
  /\ get_builtin_baseline(files).has_value
  /\ cur.port_name \in DOMAIN get_builtin_baseline(files).value
  /\ BaselinePending(files, cur.port_name, cur.schemed_version.version)

(***************************************************************************)
(* update_version_db_file on its own (lines 270-395): any versions file of *)
(* up to MaxStart entries to start from, with or without a leftover        *)
(* temporary file, and call after call with any                            *)
(* version, tree and flags.  After a call run holds its flags and cur its  *)
(* inputs and what came of it, until the next call is prepared.            *)
(***************************************************************************)
MaxStart == 2

\* the port whose versions file the calls are made for
DbPort == AllPortNames[1]

\* version texts of AllTexts the calls are made with: a date-like text too
NumDbTexts == 3

DbSchemedVersions == SchemedVersionsOver({AllTexts[i] : i \in 1..NumDbTexts})

DbHistoryEntries ==
  {[first |-> sv, second |-> t] : sv \in DbSchemedVersions, t \in Trees}

StartHistories ==
  UNION {[1..n -> DbHistoryEntries] : n \in 0..MaxStart}

\* leftover: what an earlier, interrupted write left at the temporary path
FilesWithVersions(contents, leftover) ==
  [path \in Paths |->
     IF path = port_versions_path(DbPort) THEN contents
     ELSE IF path = new_path(port_versions_path(DbPort)) THEN leftover
     ELSE IF path = baseline_path THEN JsonFile(<<>>)
     ELSE Missing]

InitDb ==
  /\ \E leftover \in {Missing, Malformed} :
       \/ files \in {FilesWithVersions(Missing, leftover),
                     FilesWithVersions(Malformed, leftover)}
       \/ \E versions \in StartHistories :
            files = FilesWithVersions(JsonFile(serialize_versions(versions)), leftover)
  /\ pc = "update_version_db_file"
  /\ run = NoRun
  /\ port_names = <<DbPort>>
  /\ index = 1
  /\ baseline_map = <<>>
  /\ cur = NoIteration
  /\ failures = {}
  /\ exit_status = "none"
  /\ wr = NoWrite

\* one call; a call that ends the process (exit_fail) leaves the files to
\* the next process
CallUpdateVersionDbFile(overwrite_version, keep_going, skip_version_format_check, port_version, git_tree) ==
  LET r == update_version_db_file(files, DbPort, port_version, git_tree,
                                  port_versions_path(DbPort), overwrite_version,
                                  keep_going, skip_version_format_check)
  IN /\ pc = "update_version_db_file"
     /\ files' = r.files
     /\ run' = [command_arguments |-> <<DbPort>>,
                add_all |-> keep_going,
                overwrite_version |-> overwrite_version,
                skip_formatting_check |-> FALSE,
                skip_version_format_check |-> skip_version_format_check]
     /\ cur' = [port_name |-> DbPort,
                schemed_version |-> port_version,
                git_tree |-> git_tree,
                updated_versions_file |-> r.result,
                branch |-> r.branch,
                updated_baseline_file |-> ""]
     /\ pc' = "returned"
     /\ UNCHANGED <<port_names, index, baseline_map, failures, exit_status, wr>>

\* the caller is gone; the files stay for the next call
ForgetCall ==
  /\ pc = "returned"
  /\ pc' = "update_version_db_file"
  /\ run' = NoRun
  /\ cur' = NoIteration
  /\ UNCHANGED <<files, port_names, index, baseline_map, failures, exit_status, wr>>

NextDb ==
  \/ \E overwrite_version, keep_going, skip_version_format_check \in BOOLEAN :
       \E port_version \in DbSchemedVersions, git_tree \in Trees :
         CallUpdateVersionDbFile(overwrite_version, keep_going,
                                 skip_version_format_check, port_version, git_tree)
  \/ ForgetCall

SpecDb == InitDb /\ [][NextDb]_vars

(***************************************************************************)
(* C12. Fingerprint uniqueness: a call of update_version_db_file on a      *)
(* history in which no two entries share a fingerprint (new entry,         *)
(* override, refusal or no-op) leaves a history in which no two entries    *)
(* share a fingerprint; so it holds after any sequence of calls.           *)
(***************************************************************************)
TreesUnique(versions) ==
  \A i, j \in 1..Len(versions) : versions[i].second = versions[j].second => i = j

C12_FingerprintUnique ==
  [][TreesUnique(history(files, DbPort)) => TreesUnique(history(files', DbPort))]_vars

\* an override gave the second of three entries a tree no other entry has
C12_Witness ==
  /\ pc = "returned"
  /\ cur.branch = "overwritten"
  /\ cur.updated_versions_file = "Updated"
  /\ Len(history(files, DbPort)) = 3
  /\ TreesUnique(history(files, DbPort))
  /\ history(files, DbPort)[2].second = cur.git_tree

(***************************************************************************)
(* C13. Version-text uniqueness.  As stated: a call of                     *)
(* update_version_db_file on a history in which no two entries share a     *)
(* version text (any texts, port-versions, fingerprints and flags) leaves  *)
(* a history in which no two entries share a version text.                 *)
(***************************************************************************)
TextsUnique(versions) ==
  \A i, j \in 1..Len(versions) :
    versions[i].first.version.text = versions[j].first.version.text => i = j

C13_Original ==
  [][TextsUnique(history(files, DbPort)) => TextsUnique(history(files', DbPort))]_vars

(***************************************************************************)
(* C13, amended: the same for the Version, that is the version text        *)
(* together with the port-version: no two entries share both.  Two entries *)
(* may have the same text with different port-versions.                    *)
(***************************************************************************)
VersionsUnique(versions) ==
  \A i, j \in 1..Len(versions) :
    versions[i].first.version = versions[j].first.version => i = j

C13_VersionUnique ==
  [][VersionsUnique(history(files, DbPort)) =>
       VersionsUnique(history(files', DbPort))]_vars

\* a new port-version of a recorded version text was inserted
C13_Witness ==
  /\ pc = "returned"
  /\ cur.branch = "inserted"
  /\ cur.updated_versions_file = "Updated"
  /\ Len(history(files, DbPort)) = 2
  /\ VersionsUnique(history(files, DbPort))
  /\ ~TextsUnique(history(files, DbPort))

(***************************************************************************)
(* C14. Baseline precondition: a run that finds the baseline file missing  *)
(* or unparsable ends with a failure before any port is processed, and     *)
(* writes no versions file and no baseline file.                           *)
(***************************************************************************)
BaselineUnreadable(fs) ==
  ~fs_exists(fs, baseline_path) \/ ~get_builtin_baseline(fs).has_value

C14_BaselinePrecondition ==
  [][(pc = "start" /\ BaselineUnreadable(files))
       => /\ pc' = "idle"
          /\ exit_status' = "failure"
          /\ files' = files
          /\ cur' = NoIteration
          /\ failures' = {}]_vars

\* a run has ended in failure on an unparsable baseline file, no port processed
C14_Witness ==
  /\ pc = "idle"
  /\ exit_status = "failure"
  /\ files[baseline_path].state = "malformed"
  /\ cur = NoIteration
  /\ failures = {}

(***************************************************************************)
(* C15. In process-all mode a refused port is skipped: when                *)
(* update_version_db_file refuses the update of a port (version conflict   *)
(* without override, or unchanged content under another version), the      *)
(* versions file of the port and the baseline file are unchanged, and the  *)
(* next port is processed.                                                 *)
(***************************************************************************)
RefusedStep ==
  /\ VersionsStep
  /\ cur'.branch \in {"sha_unchanged", "sha_changed"}
  /\ exit_status' # "interrupted"

C15_RefusedPortSkipped ==
  [][(ProcessAllMode /\ RefusedStep)
       => /\ files'[port_versions_path(cur'.port_name)] =
               files[port_versions_path(cur'.port_name)]
          /\ files'[baseline_path] = files[baseline_path]
          /\ exit_status' # "failure"
          /\ index < Len(port_names) => (pc' = "loop" /\ index' = index + 1)]_vars

(***************************************************************************)
(* update_baseline_version on its own (lines 230-268): any baseline map in *)
(* memory, any baseline file on disk (stale or not), a leftover temporary  *)
(* file or none, and call after call with any port and version.            *)
(***************************************************************************)
BaselineMaps ==
  UNION {[names -> Versions] : names \in SUBSET Ports}

InitBaseline ==
  /\ baseline_map \in BaselineMaps
  /\ \E contents \in {Missing, Malformed}
                       \cup {JsonFile(serialize_baseline(m)) : m \in BaselineMaps},
        leftover \in {Missing, Malformed} :
       files = [path \in Paths |->
                  IF path = baseline_path THEN contents
                  ELSE IF path = new_path(baseline_path) THEN leftover
                  ELSE Missing]
  /\ pc = "update_baseline_version"
  /\ run = NoRun
  /\ port_names = <<>>
  /\ index = 0
  /\ cur = NoIteration
  /\ failures = {}
  /\ exit_status = "none"
  /\ wr = NoWrite

CallUpdateBaselineVersion(port_name, version) ==
  LET b == update_baseline_version(files, port_name, version, baseline_map)
  IN /\ pc = "update_baseline_version"
     /\ pc' = "returned"
     /\ files' = b.files
     /\ baseline_map' = b.baseline_map
     /\ cur' = [NoIteration EXCEPT !.port_name = port_name,
                                   !.schemed_version.version = version,
                                   !.updated_baseline_file = b.result]
     /\ UNCHANGED <<run, port_names, index, failures, exit_status, wr>>

\* the next call is prepared on the same map and files
NextBaselineCall ==
  /\ pc = "returned"
  /\ pc' = "update_baseline_version"
  /\ cur' = NoIteration
  /\ UNCHANGED <<files, baseline_map, run, port_names, index, failures, exit_status, wr>>

NextBaseline ==
  \/ \E port_name \in Ports, version \in Versions :
       CallUpdateBaselineVersion(port_name, version)
  \/ NextBaselineCall

SpecBaseline == InitBaseline /\ [][NextBaseline]_vars

(***************************************************************************)
(* C16. Baseline reconciler: update_baseline_version inserts the port and  *)
(* returns Updated when the port is absent from the map, returns           *)
(* NotUpdated when it is present with an equal Version, overwrites and     *)
(* returns Updated when it is present with another Version; the baseline   *)
(* file is written exactly when the result is Updated, and the entries of  *)
(* the other ports are unchanged in every case.                            *)
(***************************************************************************)
C16_BaselineReconciler ==
  [][(pc = "update_baseline_version" /\ pc' = "returned") =>
       LET port_name == cur'.port_name
           version == cur'.schemed_version.version
           present == port_name \in DOMAIN baseline_map
       IN /\ IF present /\ baseline_map[port_name] = version
               THEN /\ cur'.updated_baseline_file = "NotUpdated"
                    /\ baseline_map' = baseline_map
                    /\ files' = files
               ELSE /\ cur'.updated_baseline_file = "Updated"
                    /\ baseline_map'[port_name] = version
                    /\ files'[baseline_path] = JsonFile(serialize_baseline(baseline_map'))
                    /\ get_builtin_baseline(files').value = baseline_map'
                    /\ files'[new_path(baseline_path)] = Missing
          /\ DOMAIN baseline_map' = DOMAIN baseline_map \cup {port_name}
          /\ \A n \in DOMAIN baseline_map \ {port_name} :
               baseline_map'[n] = baseline_map[n]]_vars

\* the version of one port was set beside the entry of another port with a
\* different version, and the written file holds both
C16_Witness ==
  /\ pc = "returned"
  /\ cur.updated_baseline_file = "Updated"
  /\ DOMAIN baseline_map = Ports
  /\ \E n \in Ports : baseline_map[n] # cur.schemed_version.version
  /\ files[baseline_path] = JsonFile(serialize_baseline(baseline_map))

(***************************************************************************)
(* C17. History is persisted only on Updated: a call of                    *)
(* update_version_db_file writes the versions file if and only if it       *)
(* returns Updated; on NotUpdated and on every path that ends the run      *)
(* (refusal without keep_going, scheme suggestion, unparsable file) every  *)
(* file on disk is as before.                                              *)
(***************************************************************************)
C17_WrittenIffUpdated ==
  [][(pc = "update_version_db_file" /\ pc' = "returned") =>
       LET path == port_versions_path(cur'.port_name)
           written == [first |-> cur'.schemed_version, second |-> cur'.git_tree]
       IN IF cur'.updated_versions_file = "Updated"
            THEN /\ files'[path] # files[path]
                 /\ files'[path].state = "json"
                 /\ \E i \in 1..Len(history(files', cur'.port_name)) :
                      history(files', cur'.port_name)[i] = written
                 /\ files'[new_path(path)] = Missing
            ELSE /\ cur'.updated_versions_file \in {"NotUpdated", "exit_fail"}
                 /\ files' = files]_vars

\* an override was stopped by the scheme suggestion: the entry replaced in
\* memory was not written, and a leftover temporary file is still there
C17_Witness ==
  /\ pc = "returned"
  /\ cur.updated_versions_file = "exit_fail"
  /\ cur.branch = "suggest_scheme"
  /\ run.overwrite_version
  /\ has_version(history(files, DbPort), cur.schemed_version.version)
  /\ ~has_tree(history(files, DbPort), cur.git_tree)
  /\ files[new_path(port_versions_path(DbPort))] = Malformed

(***************************************************************************)
(* C18. Malformed history file is a per-port failure: when the versions    *)
(* file of a port cannot be parsed, nothing is written to it or to the     *)
(* baseline file, and in process-all mode the next port of the listing is  *)
(* processed.                                                              *)
(***************************************************************************)
C18_MalformedHistory ==
  [][(VersionsStep /\ ~readable(files, cur'.port_name))
       => /\ files' = files
          /\ cur'.updated_versions_file # "Updated"
          /\ (ProcessAllMode /\ index < Len(port_names))
               => (pc' = "loop" /\ index' = index + 1)]_vars


(***************************************************************************)
(* C19. Scheme suggestion is fatal and changes no stored data.  A call of  *)
(* update_version_db_file is on a writing path when the versions file is   *)
(* missing, or is readable, holds no entry with the call's fingerprint and *)
(* either holds no entry with the call's version or the override is on.    *)
(* On a writing path, when the check is not suppressed and the version has *)
(* scheme String with date-like or relaxed dotted text, the call ends the  *)
(* process with a failure and every file is as before; the one scheme it   *)
(* suggests is version-date when the text is date-like, version otherwise. *)
(* When the check is suppressed or the scheme is not String, a writing     *)
(* path returns Updated and every other path gives what it gives with the  *)
(* suppression flag flipped.                                               *)
(***************************************************************************)
WritingPath(fs, version, git_tree, overwrite_version) ==
  \/ ~fs_exists(fs, port_versions_path(DbPort))
  \/ /\ readable(fs, DbPort)
     /\ ~has_tree(history(fs, DbPort), git_tree)
     /\ (has_version(history(fs, DbPort), version) => overwrite_version)

SuggestibleText(schemed_version) ==
  /\ schemed_version.scheme = "String"
  /\ \/ DateVersion_try_parse(schemed_version.version.text)
     \/ DotVersion_try_parse_relaxed(schemed_version.version.text)

C19_SchemeSuggestionFatal ==
  [][pc' = "returned" =>
       LET sv == cur'.schemed_version
           skip == run'.skip_version_format_check
           writing == WritingPath(files, sv.version, cur'.git_tree, run'.overwrite_version)
           flipped == update_version_db_file(files, DbPort, sv, cur'.git_tree,
                                             port_versions_path(DbPort),
                                             run'.overwrite_version, run'.add_all, ~skip)
       IN /\ (writing /\ ~skip /\ SuggestibleText(sv))
               => /\ cur'.updated_versions_file = "exit_fail"
                  /\ cur'.branch = "suggest_scheme"
                  /\ files' = files
                  /\ check_used_version_scheme(sv) =
                       IF DateVersion_try_parse(sv.version.text)
                         THEN VERSION_DATE ELSE VERSION_RELAXED
          /\ (writing /\ (skip \/ sv.scheme # "String"))
               => /\ cur'.updated_versions_file = "Updated"
                  /\ cur'.branch # "suggest_scheme"
                  /\ history(files', DbPort) # <<>>
          /\ (~writing \/ sv.scheme # "String")
               => /\ cur'.updated_versions_file = flipped.result
                  /\ files' = flipped.files]_vars

\* a String version with a date-like text, which is relaxed dotted text too,
\* reached the check on the path of a new entry and was refused
C19_Witness ==
  /\ pc = "returned"
  /\ cur.schemed_version.scheme = "String"
  /\ DateVersion_try_parse(cur.schemed_version.version.text)
  /\ DotVersion_try_parse_relaxed(cur.schemed_version.version.text)
  /\ ~run.skip_version_format_check
  /\ cur.updated_versions_file = "exit_fail"
  /\ cur.branch = "suggest_scheme"
  /\ history(files, DbPort) # <<>>


(***************************************************************************)
(* C20. Write ordering.  A run goes over its listing one port at a time,   *)
(* in listing order, and no port is listed twice.  A step of the loop      *)
(* writes only the versions file of the current port and the baseline      *)
(* file; the versions file it leaves is the one update_version_db_file     *)
(* produced, whether or not the baseline file was reached; the baseline    *)
(* file changes only after update_version_db_file has returned for the     *)
(* current port, and a process that ends between the two leaves the        *)
(* baseline file as it was.  A port before the current one is never        *)
(* written again in the run.                                               *)
(***************************************************************************)
NoDuplicates(names) ==
  \A i, j \in 1..Len(names) : names[i] = names[j] => i = j

C20_WriteOrdering ==
  [][pc = "loop" =>
       LET port_name == port_names[index]
           path == port_versions_path(port_name)
           r == update_version_db_file(files, port_name, cur'.schemed_version,
                                       cur'.git_tree, path, run.overwrite_version,
                                       run.add_all, run.skip_version_format_check)
       IN /\ NoDuplicates(port_names)
          /\ index \in 1..Len(port_names)
          /\ pc' = "loop" => (index' = index + 1 /\ port_names' = port_names)
          /\ \A p \in Paths : files'[p] # files[p] => p \in {path, baseline_path}
          /\ \A i \in 1..(index - 1) :
               files'[port_versions_path(port_names[i])] =
                 files[port_versions_path(port_names[i])]
          /\ IF VersionsStep
               THEN /\ cur'.port_name = port_name
                    /\ files'[path] = r.files[path]
                    /\ files'[baseline_path] # files[baseline_path]
                         => /\ cur'.updated_versions_file \in {"Updated", "NotUpdated"}
                            /\ cur'.updated_baseline_file = "Updated"
                            /\ (cur'.updated_versions_file = "Updated"
                                  => files'[path] # files[path])
                    /\ cur'.updated_baseline_file = ""
                         => files'[baseline_path] = files[baseline_path]
               ELSE files' = files]_vars

\* a run over the whole listing has written the versions file and the
\* baseline file for the first port and is at the second port
C20_Witness ==
  /\ pc = "loop"
  /\ port_names = ports_listing
  /\ index = 2
  /\ cur.port_name = port_names[1]
  /\ cur.updated_versions_file = "Updated"
  /\ cur.updated_baseline_file = "Updated"
  /\ history(files, port_names[1]) # <<>>
  /\ files[port_versions_path(port_names[2])] = Missing


(***************************************************************************)
(* C21. Missing history file.  A call of update_version_db_file for a port *)
(* whose versions file does not exist, with the scheme check suppressed or *)
(* passing, returns Updated and leaves a versions file that parses to      *)
(* exactly one entry, the call's (schemed version, git tree), whatever the *)
(* overwrite-version and keep-going flags are; no other file is changed    *)
(* but the temporary file the write goes through.                          *)
(***************************************************************************)
C21_MissingHistoryFile ==
  [][(/\ pc' = "returned"
      /\ ~fs_exists(files, port_versions_path(DbPort))
      /\ SchemeCheckPasses(run', cur'.schemed_version))
       => /\ cur'.updated_versions_file = "Updated"
          /\ fs_exists(files', port_versions_path(DbPort))
          /\ get_builtin_versions(files', DbPort).has_value
          /\ history(files', DbPort) =
               <<[first |-> cur'.schemed_version, second |-> cur'.git_tree]>>
          /\ \A p \in Paths :
               files'[p] # files[p]
                 => p \in {port_versions_path(DbPort),
                           new_path(port_versions_path(DbPort))}]_vars

\* the file was missing, the call ran with keep-going and without the
\* override, and one entry is there now
C21_Witness ==
  /\ pc = "returned"
  /\ cur.branch = "new_file"
  /\ cur.updated_versions_file = "Updated"
  /\ run.add_all
  /\ ~run.overwrite_version
  /\ Len(history(files, DbPort)) = 1


(***************************************************************************)
(* C22. The baseline never points at an unrecorded version: in every step  *)
(* of a run in which update_baseline_version sets the baseline entry of a  *)
(* port to a version, the versions file of the port as the step leaves it  *)
(* holds an entry with that version.                                       *)
(***************************************************************************)
BaselineSetStep ==
  /\ VersionsStep
  /\ cur'.updated_baseline_file = "Updated"

C22_BaselineRecorded ==
  [][BaselineSetStep
       => /\ get_builtin_baseline(files').has_value
          /\ get_builtin_baseline(files').value[cur'.port_name] =
               cur'.schemed_version.version
          /\ has_version(history(files', cur'.port_name),
                         cur'.schemed_version.version)]_vars


(***************************************************************************)
(* C23. The fingerprint match is decided first and is not overridable.  A  *)
(* call of update_version_db_file on a readable versions file that holds   *)
(* an entry with the call's git tree changes no file and neither           *)
(* overwrites nor inserts, whatever the overwrite-version flag is and      *)
(* whether or not another entry holds the call's version.  When the        *)
(* history has at most one entry per git tree and the entry with the       *)
(* call's git tree has another version, the call is refused as unchanged   *)
(* content: NotUpdated with keep_going, the end of the process with a      *)
(* failure without.  The version search (conflict, override, insertion)    *)
(* is only reached when no entry has the call's git tree.                  *)
(***************************************************************************)
C23_FingerprintFirst ==
  [][(/\ pc' = "returned"
      /\ fs_exists(files, port_versions_path(DbPort))
      /\ readable(files, DbPort))
       => LET versions == history(files, DbPort) IN
          /\ has_tree(versions, cur'.git_tree)
               => /\ files' = files
                  /\ cur'.branch \in {"already_in_file", "sha_unchanged"}
          /\ (/\ TreesUnique(versions)
              /\ SameTreeOtherVersion(versions, cur'.schemed_version, cur'.git_tree))
               => /\ cur'.branch = "sha_unchanged"
                  /\ cur'.updated_versions_file =
                       IF run'.add_all THEN "NotUpdated" ELSE "exit_fail"
          /\ cur'.branch \in {"sha_changed", "overwritten", "inserted"}
               => ~has_tree(versions, cur'.git_tree)]_vars

\* the override was on and another entry held the call's version, and the
\* call was still refused for the entry with the call's git tree
C23_Witness ==
  /\ pc = "returned"
  /\ run.overwrite_version
  /\ cur.branch = "sha_unchanged"
  /\ TreesUnique(history(files, DbPort))
  /\ SameTreeOtherVersion(history(files, DbPort), cur.schemed_version, cur.git_tree)
  /\ has_version(history(files, DbPort), cur.schemed_version.version)


(***************************************************************************)
(* C24. Batch baseline accumulation.  Through a process-all run the        *)
(* baseline file parses to the baseline map the loop holds in memory.  A   *)
(* step in which update_baseline_version is reached leaves a baseline file *)
(* that maps the current port to its current version and every other port  *)
(* as before; a step in which it is not reached leaves the baseline file   *)
(* as it is.  In particular the entry made for the previous port of the    *)
(* listing is still there after the step of the current port.              *)
(***************************************************************************)
BaselineOf(fs) == get_builtin_baseline(fs).value

C24_BatchBaseline ==
  [][(pc = "loop" /\ ProcessAllMode)
       => /\ get_builtin_baseline(files).has_value
          /\ BaselineOf(files) = baseline_map
          /\ get_builtin_baseline(files').has_value
          /\ pc' = "loop" => baseline_map' = BaselineOf(files')
          /\ IF VersionsStep /\ cur'.updated_baseline_file # ""
               THEN /\ DOMAIN BaselineOf(files') =
                         DOMAIN BaselineOf(files) \cup {cur'.port_name}
                    /\ BaselineOf(files')[cur'.port_name] = cur'.schemed_version.version
                    /\ \A n \in DOMAIN BaselineOf(files) \ {cur'.port_name} :
                         BaselineOf(files')[n] = BaselineOf(files)[n]
                    /\ (/\ index > 1
                        /\ cur.port_name = port_names[index - 1]
                        /\ cur.updated_baseline_file # "")
                         => BaselineOf(files')[cur.port_name] =
                              cur.schemed_version.version
               ELSE files'[baseline_path] = files[baseline_path]]_vars

\* a process-all run has set the entry of the first port, kept the entry an
\* earlier run made for the second port, and is at the second port
C24_Witness ==
  /\ pc = "loop"
  /\ ProcessAllMode
  /\ index = 2
  /\ cur.port_name = port_names[1]
  /\ cur.updated_baseline_file = "Updated"
  /\ DOMAIN BaselineOf(files) = {port_names[1], port_names[2]}
  /\ BaselineOf(files)[port_names[1]] = cur.schemed_version.version


(***************************************************************************)
(* C25. A scheme-only change is not recorded.  When the first entry of the *)
(* history with the call's git tree has the call's Version (text and       *)
(* port-version) under another scheme than the call's, a call of           *)
(* update_version_db_file returns NotUpdated and changes no file, so the   *)
(* entry keeps the scheme it was recorded with, with or without the        *)
(* overwrite-version flag and whatever the other flags are.                *)
(***************************************************************************)
SchemeOnlyChange(versions, schemed_version, git_tree) ==
  /\ has_tree(versions, git_tree)
  /\ versions[found_same_sha(versions, git_tree)].first.version = schemed_version.version
  /\ versions[found_same_sha(versions, git_tree)].first.scheme # schemed_version.scheme

C25_SchemeOnlyChange ==
  [][(/\ pc' = "returned"
      /\ readable(files, DbPort)
      /\ SchemeOnlyChange(history(files, DbPort), cur'.schemed_version, cur'.git_tree))
       => /\ cur'.updated_versions_file = "NotUpdated"
          /\ cur'.branch = "already_in_file"
          /\ files' = files
          /\ history(files', DbPort)[found_same_sha(history(files, DbPort),
                                                    cur'.git_tree)].first.scheme
               # cur'.schemed_version.scheme]_vars

\* the override was on, the check was not suppressed, and the entry still
\* has the scheme it had: another one than the port declares now
C25_Witness ==
  /\ pc = "returned"
  /\ run.overwrite_version
  /\ ~run.add_all
  /\ cur.updated_versions_file = "NotUpdated"
  /\ TreesUnique(history(files, DbPort))
  /\ SchemeOnlyChange(history(files, DbPort), cur.schemed_version, cur.git_tree)

====
